---- MODULE Spec2Model ----
(***************************************************************************)
(* Upload-and-mint pipeline of the NFT marketplace front end.              *)
(*                                                                         *)
(*  - the upload endpoint POST /api/upload (app/layout.tsx, lines 23-193)  *)
(*    writes an image and a metadata document to an S3-compatible store    *)
(*    and resolves their content identifiers (CIDs);                       *)
(*  - the page controller (app/page.tsx) uploads through that endpoint and *)
(*    then mints through the Metaplex client.                              *)
(*                                                                         *)
(* Strings are sequences of tokens, so that concatenation, prefix tests    *)
(* and whitespace replacement are computed and not assumed.                *)
(***************************************************************************)
EXTENDS Integers, Sequences, FiniteSets, TLC

VARIABLES
    env,        \* process.env restricted to the five keys the endpoint reads
    clock,      \* Date.now()
    store,      \* the bucket: key -> stored object
    reqs,       \* upload requests received so far, one record per invocation of POST
    file,       \* page state: selected file (NoFile when none)
    wallet,     \* page state: wallet.connected / wallet.publicKey
    busy,       \* page state
    status,     \* page state
    mintAddress,        \* page state
    metadataUrl,        \* page state
    metadataGatewayUrl, \* page state
    imageGatewayUrl,    \* page state
    workflows,  \* every accepted call of mintNft, in order of acceptance
    mints,      \* calls of metaplex.nfts().create made so far
    clicks,     \* number of clicks on the mint button so far
    lastClick   \* what the most recent click did

serverVars == <<env, clock, store, reqs>>
pageVars == <<file, wallet, busy, status, mintAddress, metadataUrl,
              metadataGatewayUrl, imageGatewayUrl, workflows, mints, clicks, lastClick>>
vars == <<env, clock, store, reqs, file, wallet, busy, status, mintAddress, metadataUrl,
          metadataGatewayUrl, imageGatewayUrl, workflows, mints, clicks, lastClick>>

----------------------------------------------------------------------------
(* Bounds *)

MaxRequests == 1    \* requests sent to the endpoint by other clients than the page
MaxClock == 2       \* largest value of Date.now()
MaxRand == 2        \* number of distinct values of Math.random()
MaxClicks == 2      \* clicks on the mint button

----------------------------------------------------------------------------
(* JavaScript values *)

Undefined == <<"#undefined">>       \* undefined / null
EmptyString == <<>>

Truthy(s) == s # Undefined /\ s # EmptyString

\* a || b
OrElse(a, b) == IF Truthy(a) THEN a ELSE b

\* s.startsWith(prefix), on token sequences
StartsWith(s, prefix) ==
    /\ s # Undefined
    /\ Len(s) >= Len(prefix)
    /\ SubSeq(s, 1, Len(prefix)) = prefix

IsSpace(c) == c \in {" ", "\t"}

\* s.replace(/\s+/g, "_"): every maximal run of whitespace becomes one "_"
RECURSIVE ReplaceSpaces(_)
ReplaceSpaces(s) ==
    IF s = <<>> THEN <<>>
    ELSE IF IsSpace(Head(s))
         THEN IF Len(s) > 1 /\ IsSpace(s[2])
              THEN ReplaceSpaces(Tail(s))
              ELSE <<"_">> \o ReplaceSpaces(Tail(s))
         ELSE <<Head(s)>> \o ReplaceSpaces(Tail(s))

\* s.trim()
RECURSIVE TrimLeft(_)
TrimLeft(s) == IF s # <<>> /\ IsSpace(Head(s)) THEN TrimLeft(Tail(s)) ELSE s

RECURSIVE TrimRight(_)
TrimRight(s) ==
    IF s # <<>> /\ IsSpace(s[Len(s)]) THEN TrimRight(SubSeq(s, 1, Len(s) - 1)) ELSE s

Trim(s) == TrimRight(TrimLeft(s))

\* s.replace(/^"+|"+$/g, "")
RECURSIVE StripLeadingQuotes(_)
StripLeadingQuotes(s) ==
    IF s # <<>> /\ Head(s) = "\"" THEN StripLeadingQuotes(Tail(s)) ELSE s

RECURSIVE StripTrailingQuotes(_)
StripTrailingQuotes(s) ==
    IF s # <<>> /\ s[Len(s)] = "\""
    THEN StripTrailingQuotes(SubSeq(s, 1, Len(s) - 1)) ELSE s

StripQuotes(s) == StripTrailingQuotes(StripLeadingQuotes(s))

\* JSON.stringify of an object: its members in insertion order
JsonText(members) == [kind |-> "json", members |-> members]
HtmlText == [kind |-> "html", members |-> <<>>]
EmptyText == [kind |-> "empty", members |-> <<>>]

\* JSON.parse(text).field; Undefined when the member is absent
JsonGet(text, field) ==
    LET hits == {i \in 1..Len(text.members) : text.members[i][1] = field}
    IN  IF text.kind = "json" /\ hits # {}
        THEN text.members[CHOOSE i \in hits : \A j \in hits : j <= i][2]
        ELSE Undefined

----------------------------------------------------------------------------
(* The upload endpoint: app/layout.tsx *)

EnvKeys == <<"FILEBASE_ACCESS_KEY", "FILEBASE_SECRET_KEY", "FILEBASE_BUCKET",
             "FILEBASE_S3_ENDPOINT", "FILEBASE_GATEWAY">>

\* .env.local as shipped: plain values, the gateway quoted and padded
BaseEnv ==
    [k \in {EnvKeys[i] : i \in 1..Len(EnvKeys)} |->
        IF k = "FILEBASE_GATEWAY" THEN <<" ", "\"", "https://ipfs.filebase.io/ipfs", "\"">>
        ELSE <<k, "-value">>]

\* mustEnv(key): ok = FALSE stands for the thrown Error
mustEnv(key) ==
    LET v == env[key]
    IN  IF ~Truthy(v)
        THEN [ok |-> FALSE, value |-> <<"Missing ", key, " in .env.local">>]
        ELSE [ok |-> TRUE, value |-> StripQuotes(Trim(v))]

\* variant of FirstMissingEnv: the last missing key is the one reported
LastMissingEnv ==
    LET bad == {i \in 1..Len(EnvKeys) : ~mustEnv(EnvKeys[i]).ok}
    IN  IF bad = {} THEN 0 ELSE CHOOSE i \in bad : \A j \in bad : j <= i

\* the five mustEnv calls at the head of POST, in order: the first one that throws
FirstMissingEnv ==
    LET bad == {i \in 1..Len(EnvKeys) : ~mustEnv(EnvKeys[i]).ok}
    IN  IF bad = {} THEN 0 ELSE CHOOSE i \in bad : \A j \in bad : i <= j

Rands == 1..MaxRand

NoKey == [prefix |-> "", time |-> 0, rand |-> 0, safe |-> <<>>]

\* what Date.now() and Math.random() returned to one call of randomKey
Draw(now, rnd) == [now |-> now, rnd |-> rnd]

\* variant of randomKey: the random component is missing from the key
randomKeyTimeOnly(prefix, filename, now, rnd) ==
    [prefix |-> prefix, time |-> now, rand |-> 0, safe |-> ReplaceSpaces(filename)]

\* randomKey(prefix, filename) with the values Date.now() and Math.random() returned
randomKey(prefix, filename, now, rnd) ==
    [prefix |-> prefix, time |-> now, rand |-> rnd, safe |-> ReplaceSpaces(filename)]

\* the store is content addressed: the CID of an object is a function of its bytes
CidOf(body) == <<"bafy", body>>

\* form entries
NoFile == [kind |-> "null", text |-> EmptyString, name |-> EmptyString, type |-> Undefined]
StringEntry(s) == [kind |-> "string", text |-> s, name |-> EmptyString, type |-> Undefined]
FileEntry(n, t) == [kind |-> "file", text |-> EmptyString, name |-> n, type |-> t]

ImagePng == <<"image/", "png">>
TextPlain == <<"text/", "plain">>

Files == {FileEntry(<<"a", " ", " ", "b">>, ImagePng),
          FileEntry(<<"a", "_", "b">>, ImagePng),
          FileEntry(<<"n">>, TextPlain),
          FileEntry(<<"n">>, EmptyString)}

\* a body that req.formData() cannot parse: the await of line 68 rejects
Unparsable == [kind |-> "malformed", text |-> EmptyString, name |-> EmptyString, type |-> Undefined]

FileFields == {NoFile, StringEntry(EmptyString), StringEntry(<<"x">>), Unparsable} \cup Files

\* name and description entries of the form, as sent together
TextFields == {[name |-> Undefined, description |-> Undefined],
               [name |-> <<"Gun Skin #1">>, description |-> <<"test">>]}

Forms == {[file |-> f, name |-> t.name, description |-> t.description] :
            f \in FileFields, t \in TextFields}

NoResponse == [status |-> 0, text |-> EmptyText]

JsonResponse(members, st) == [status |-> st, text |-> JsonText(members)]

ErrorResponse(msg, st) == JsonResponse(<< <<"error", msg>> >>, st)

FileMissingMsg == <<"File missing">>
OnlyImagesMsg == <<"Only image files are allowed">>
ImgCidMissingMsg == <<"CID missing from upload response (even after HeadObject).">>
ImgCidHint == <<"Filebase dashboard: bucket backend/network must be IPFS.">>
MetaCidMissingMsg == <<"Metadata CID missing (even after HeadObject).">>
UploadFailedMsg == <<"Upload failed">>
TypeErrorMsg == <<"Cannot read properties of undefined (reading 'startsWith')">>
FormParseMsg == <<"Failed to parse body as FormData.">>

\* variant of CaughtResponse: the exception leaves the handler, no response is built
CaughtResponsePropagates(msg) == NoResponse

\* the catch block of POST
CaughtResponse(msg) == ErrorResponse(OrElse(msg, UploadFailedMsg), 500)

\* variant of FileAbsent: only the empty string counts as absent
FileAbsentEmptyOnly(f) == f.kind = "string" /\ ~Truthy(f.text)

\* !file
FileAbsent(f) == f.kind = "null" \/ (f.kind = "string" /\ ~Truthy(f.text))

\* variant of IsImageType: any declared type passes
IsImageTypeAny(t) == Truthy(t)

\* file.type.startsWith("image/")
IsImageType(t) == StartsWith(t, <<"image/">>)

\* variant of CidAbsent: the identifier of the PUT response is never trusted
CidAbsentAlways(cid) == TRUE

\* !imgCid, !metaCid
CidAbsent(cid) == ~Truthy(cid)

Ipfs(cid) == <<"ipfs://">> \o cid
GatewayUrl(cid) == mustEnv("FILEBASE_GATEWAY").value \o <<"/">> \o cid

formName(form) == OrElse(form.name, <<"My NFT">>)
formDescription(form) == OrElse(form.description, EmptyString)

\* variant of MetadataImage: the gateway link instead of the ipfs:// URI
MetadataImageGateway(imgCid) == GatewayUrl(imgCid)

\* the metadata object literal and its serialisation (metaBody)
MetadataImage(imgCid) == Ipfs(imgCid)

MetadataBody(form, imgCid) ==
    JsonText(<< <<"name", formName(form)>>,
                <<"description", formDescription(form)>>,
                <<"image", MetadataImage(imgCid)>>,
                <<"properties", [files |-> <<[uri |-> Ipfs(imgCid), type |-> form.file.type]>>,
                                 category |-> "image"]>> >>)

\* variant of SuccessResponse: imageIpfs built from the metadata identifier
SuccessResponseSwapped(imgCid, metaCid) ==
    JsonResponse(<< <<"metadataUrl", Ipfs(metaCid)>>,
                    <<"metadataGatewayUrl", GatewayUrl(metaCid)>>,
                    <<"imageIpfs", Ipfs(metaCid)>>,
                    <<"imageGatewayUrl", GatewayUrl(imgCid)>> >>, 200)

\* the 200 response
SuccessResponse(imgCid, metaCid) ==
    JsonResponse(<< <<"metadataUrl", Ipfs(metaCid)>>,
                    <<"metadataGatewayUrl", GatewayUrl(metaCid)>>,
                    <<"imageIpfs", Ipfs(imgCid)>>,
                    <<"imageGatewayUrl", GatewayUrl(imgCid)>> >>, 200)

ImgCidMissingResponse ==
    JsonResponse(<< <<"error", ImgCidMissingMsg>>, <<"hint", ImgCidHint>> >>, 500)

\* the response headers of a PutObject: the CID of the written object under one of the
\* two spellings the endpoint looks at, or under none
PutShapes == {"none", "lower", "upper"}

PutHeaders(cid, shape) ==
    [lower |-> IF shape = "lower" THEN cid ELSE Undefined,
     upper |-> IF shape = "upper" THEN cid ELSE Undefined]

\* imgHeaders["x-amz-meta-cid"] || imgHeaders["X-Amz-Meta-Cid"]
CidFromPut(headers) == OrElse(headers.lower, headers.upper)

HeadShapes == {"none", "cid", "CID", "lower", "upper"}

HeadOutput(cid, shape) ==
    [cid |-> IF shape = "cid" THEN cid ELSE Undefined,
     CID |-> IF shape = "CID" THEN cid ELSE Undefined,
     lower |-> IF shape = "lower" THEN cid ELSE Undefined,
     upper |-> IF shape = "upper" THEN cid ELSE Undefined]

\* the || chain of getCidByHead
getCidByHead(head) == OrElse(head.cid, OrElse(head.CID, OrElse(head.lower, head.upper)))

\* what a failing s3.send throws: a transport error for PutObject, and for HeadObject
\* (whose error responses have no body) an error without a message
PutErrors == {<<"socket hang up">>}
HeadErrors == {EmptyString}

\* one s3.send as the store saw it and answered it: cid is the identifier the handler
\* read from the answer
Call(op, key, body, threw, cid) ==
    [op |-> op, key |-> key, body |-> body, threw |-> threw, cid |-> cid]

NewRequest(origin, form) ==
    [origin |-> origin, form |-> form, pc |-> "start",
     imgKey |-> NoKey, imgCid |-> Undefined, metaKey |-> NoKey, metaCid |-> Undefined,
     draws |-> <<>>, calls |-> <<>>, response |-> NoResponse]

Respond(q, resp) == [q EXCEPT !.pc = "done", !.response = resp]

\* lines 61-95: configuration, form, validation, image key
Begin(q, rnd) ==
    LET f == q.form.file
    IN  IF FirstMissingEnv # 0
        THEN Respond(q, CaughtResponse(mustEnv(EnvKeys[FirstMissingEnv]).value))
        ELSE IF f.kind = "malformed"
        THEN Respond(q, CaughtResponse(FormParseMsg))
        ELSE IF FileAbsent(f)
        THEN Respond(q, ErrorResponse(FileMissingMsg, 400))
        ELSE IF f.kind # "file"
        THEN Respond(q, CaughtResponse(TypeErrorMsg))
        ELSE IF ~IsImageType(f.type)
        THEN Respond(q, ErrorResponse(OnlyImagesMsg, 400))
        ELSE [q EXCEPT !.pc = "putImg",
                       !.draws = Append(q.draws, Draw(clock, rnd)),
                       !.imgKey = randomKey("images", f.name, clock, rnd)]

\* variant of AfterImageCid: the check of line 117 is missing
AfterImageCidUnchecked(q, cid, rnd) ==
    [q EXCEPT !.pc = "putMeta", !.imgCid = cid,
              !.draws = Append(q.draws, Draw(clock, rnd)),
              !.metaKey = randomKey("metadata", <<"metadata.json">>, clock, rnd)]

\* lines 117-144: the image CID is known or not; metadata key
AfterImageCid(q, cid, rnd) ==
    IF CidAbsent(cid)
    THEN Respond(q, ImgCidMissingResponse)
    ELSE [q EXCEPT !.pc = "putMeta", !.imgCid = cid,
                   !.draws = Append(q.draws, Draw(clock, rnd)),
                   !.metaKey = randomKey("metadata", <<"metadata.json">>, clock, rnd)]

\* variant of AfterMetaCid: a missing metadata identifier is reported together with the
\* image links
AfterMetaCidPartial(q, cid) ==
    IF CidAbsent(cid)
    THEN Respond(q, JsonResponse(<< <<"error", MetaCidMissingMsg>>,
                                    <<"imageIpfs", Ipfs(q.imgCid)>>,
                                    <<"imageGatewayUrl", GatewayUrl(q.imgCid)>> >>, 500))
    ELSE Respond([q EXCEPT !.metaCid = cid], SuccessResponse(q.imgCid, cid))

\* variant of AfterMetaCid: the check of line 164 is missing
AfterMetaCidUnchecked(q, cid) ==
    Respond([q EXCEPT !.metaCid = cid], SuccessResponse(q.imgCid, cid))

\* lines 164-185
AfterMetaCid(q, cid) ==
    IF CidAbsent(cid)
    THEN Respond(q, ErrorResponse(MetaCidMissingMsg, 500))
    ELSE Respond([q EXCEPT !.metaCid = cid], SuccessResponse(q.imgCid, cid))

StoredObject(body, contentType) ==
    [body |-> body, contentType |-> contentType, cid |-> CidOf(body)]

Put(key, obj) == (key :> obj) @@ store

ImageBytes(f) == [kind |-> "bytes", members |-> f.name]

\* a request reaches the endpoint: POST runs up to the first PutObject
Receive(origin, form) ==
    \E rnd \in Rands :
        reqs' = Append(reqs, Begin(NewRequest(origin, form), rnd))

\* lines 97-115: PutObject of the image returns (or throws)
PutImage(r) ==
    LET q == reqs[r]
        body == ImageBytes(q.form.file)
        Sent(threw, cid) ==
            [q EXCEPT !.calls = Append(q.calls, Call("PUT", q.imgKey, body, threw, cid))]
    IN  /\ q.pc = "putImg"
        /\ \/ \E msg \in PutErrors :
                /\ reqs' = [reqs EXCEPT ![r] =
                              Respond(Sent(TRUE, Undefined), CaughtResponse(msg))]
                /\ UNCHANGED store
           \/ \E shape \in PutShapes, rnd \in Rands :
                LET obj == StoredObject(body, q.form.file.type)
                    found == CidFromPut(PutHeaders(obj.cid, shape))
                    sent == Sent(FALSE, found)
                IN  /\ store' = Put(q.imgKey, obj)
                    /\ reqs' = [reqs EXCEPT ![r] =
                                  IF CidAbsent(found)
                                  THEN [sent EXCEPT !.pc = "headImg"]
                                  ELSE AfterImageCid(sent, found, rnd)]

\* lines 113-115 and 42-58: HeadObject of the image key returns (or throws)
HeadImage(r) ==
    LET q == reqs[r]
        Sent(threw, cid) ==
            [q EXCEPT !.calls = Append(q.calls, Call("HEAD", q.imgKey, EmptyText, threw, cid))]
    IN  /\ q.pc = "headImg"
        /\ UNCHANGED store
        /\ \/ \E msg \in HeadErrors :
                reqs' = [reqs EXCEPT ![r] =
                           Respond(Sent(TRUE, Undefined), CaughtResponse(msg))]
           \/ \E shape \in HeadShapes, rnd \in Rands :
                LET found == getCidByHead(HeadOutput(store[q.imgKey].cid, shape))
                IN  reqs' = [reqs EXCEPT ![r] = AfterImageCid(Sent(FALSE, found), found, rnd)]

\* lines 146-162: PutObject of the metadata returns (or throws)
PutMetadata(r) ==
    LET q == reqs[r]
        body == MetadataBody(q.form, q.imgCid)
        Sent(threw, cid) ==
            [q EXCEPT !.calls = Append(q.calls, Call("PUT", q.metaKey, body, threw, cid))]
    IN  /\ q.pc = "putMeta"
        /\ \/ \E msg \in PutErrors :
                /\ reqs' = [reqs EXCEPT ![r] =
                              Respond(Sent(TRUE, Undefined), CaughtResponse(msg))]
                /\ UNCHANGED store
           \/ \E shape \in PutShapes :
                LET obj == StoredObject(body, <<"application/json">>)
                    found == CidFromPut(PutHeaders(obj.cid, shape))
                    sent == Sent(FALSE, found)
                IN  /\ store' = Put(q.metaKey, obj)
                    /\ reqs' = [reqs EXCEPT ![r] =
                                  IF CidAbsent(found)
                                  THEN [sent EXCEPT !.pc = "headMeta"]
                                  ELSE AfterMetaCid(sent, found)]

\* lines 160-162: HeadObject of the metadata key returns (or throws)
HeadMetadata(r) ==
    LET q == reqs[r]
        Sent(threw, cid) ==
            [q EXCEPT !.calls = Append(q.calls, Call("HEAD", q.metaKey, EmptyText, threw, cid))]
    IN  /\ q.pc = "headMeta"
        /\ UNCHANGED store
        /\ \/ \E msg \in HeadErrors :
                reqs' = [reqs EXCEPT ![r] =
                           Respond(Sent(TRUE, Undefined), CaughtResponse(msg))]
           \/ \E shape \in HeadShapes :
                LET found == getCidByHead(HeadOutput(store[q.metaKey].cid, shape))
                IN  reqs' = [reqs EXCEPT ![r] = AfterMetaCid(Sent(FALSE, found), found)]

----------------------------------------------------------------------------
(* The page controller: app/page.tsx *)

Name == <<"My NFT">>
Description == <<"Demo NFT on Devnet">>

\* files the user can pick (accept="image/*" is a hint, not a filter)
PageFiles == {FileEntry(<<"a", " ", " ", "b">>, ImagePng), FileEntry(<<"n">>, TextPlain)}

\* what answers the fetch: the endpoint, something in front of it, or nothing at all
ProxyResponses == {[status |-> 502, text |-> HtmlText],
                   [status |-> 200, text |-> EmptyText],
                   [status |-> 503, text |-> JsonText(<<>>)]}

Transports == {[kind |-> "server", res |-> NoResponse], [kind |-> "down", res |-> NoResponse]}
                \cup {[kind |-> "proxy", res |-> p] : p \in ProxyResponses}

FetchFailedMsg == <<"Failed to fetch">>
MintErrors == {<<"insufficient funds">>, EmptyString}

ConnectWalletMsg == <<"Connect wallet first (Phantom Devnet).">>
MetaplexMsg == <<"Metaplex not ready yet">>
SelectImageMsg == <<"Please select an image first">>
UploadingStatus == <<"Uploading image + metadata to Filebase (IPFS)...">>
MintingStatus == <<"Minting NFT on Solana Devnet...">>
MintedStatus == <<"NFT Minted!">>

\* the useMemo: the client exists exactly when wallet.publicKey does
metaplex == wallet

Thrown(msg) == [ok |-> FALSE, value |-> msg]
Returned(v) == [ok |-> TRUE, value |-> v]

\* variant of Precondition: the guard on the selected file is missing
PreconditionWalletOnly ==
    IF ~wallet THEN Thrown(ConnectWalletMsg)
    ELSE IF ~metaplex THEN Thrown(MetaplexMsg)
    ELSE Returned(EmptyString)

\* the three guards at the head of mintNft
Precondition ==
    IF ~wallet THEN Thrown(ConnectWalletMsg)
    ELSE IF ~metaplex THEN Thrown(MetaplexMsg)
    ELSE IF file = NoFile THEN Thrown(SelectImageMsg)
    ELSE Returned(EmptyString)

\* variant of ButtonDisabled: disabled={!wallet.connected}
ButtonDisabledWalletOnly == ~wallet

\* disabled={!wallet.connected || busy}
ButtonDisabled == ~wallet \/ busy

ResOk(res) == res.status >= 200 /\ res.status <= 299

\* variant of UploadResult: the check of line 70 is missing
UploadResultUnchecked(res) ==
    IF res.text.kind = "html"
    THEN Thrown(<<"Upload API returned non-JSON response.", "Status: ", ToString(res.status)>>)
    ELSE IF ~ResOk(res)
    THEN Thrown(OrElse(JsonGet(res.text, "error"),
                       <<"Upload failed (status ", ToString(res.status), ")">>))
    ELSE Returned(JsonGet(res.text, "metadataUrl"))

\* uploadToStorage after the fetch resolved with res: what it returns or throws
UploadResult(res) ==
    IF res.text.kind = "html"
    THEN Thrown(<<"Upload API returned non-JSON response.", "Status: ", ToString(res.status)>>)
    ELSE IF ~ResOk(res)
    THEN Thrown(OrElse(JsonGet(res.text, "error"),
                       <<"Upload failed (status ", ToString(res.status), ")">>))
    ELSE IF ~Truthy(JsonGet(res.text, "metadataUrl"))
    THEN Thrown(<<"Upload succeeded but metadataUrl missing from response.">>)
    ELSE Returned(JsonGet(res.text, "metadataUrl"))

\* the failure mark of line 175 (a cross mark and a space)
FailMark == "FAILED: "

\* "❌ " + (e?.message || String(e))
FailStatus(msg) == <<FailMark>> \o OrElse(msg, <<"Error">>)

\* one accepted call of mintNft; fetches counts its calls of fetch
Workflow(transport) ==
    [phase |-> "uploading", transport |-> transport.kind, res |-> transport.res,
     fetches |-> 1, uri |-> Undefined, address |-> Undefined, error |-> Undefined]

\* the endpoint's record of a request whose response the page has consumed
Closed(q) == [NewRequest(q.origin, q.form) EXCEPT !.pc = "closed"]

InFlight == {w \in 1..Len(workflows) : workflows[w].phase \in {"uploading", "minting"}}

\* variant of Failed: neither the finally block nor the catch clears busy
FailedStaysBusy(w, msg, res) ==
    /\ busy' = busy
    /\ status' = FailStatus(msg)
    /\ workflows' = [workflows EXCEPT ![w].phase = "failed", ![w].res = res, ![w].error = msg]
    /\ UNCHANGED <<mintAddress, mints>>

\* variant of Failed: a failed upload is sent once more before the failure is reported
FailedRetriesUpload(w, msg, res) ==
    /\ UNCHANGED <<mintAddress, mints>>
    /\ IF workflows[w].phase = "uploading" /\ workflows[w].fetches < 2
       THEN /\ busy' = busy
            /\ status' = UploadingStatus
            /\ workflows' = [workflows EXCEPT ![w].transport = "down",
                                              ![w].fetches = workflows[w].fetches + 1]
       ELSE /\ busy' = FALSE
            /\ status' = FailStatus(msg)
            /\ workflows' = [workflows EXCEPT ![w].phase = "failed", ![w].res = res,
                                              ![w].error = msg]

\* workflow w threw msg after it received res: the finally block of mintNft
\* (setBusy(false)) followed by the catch of the click handler
Failed(w, msg, res) ==
    /\ busy' = FALSE
    /\ status' = FailStatus(msg)
    /\ workflows' = [workflows EXCEPT ![w].phase = "failed", ![w].res = res, ![w].error = msg]
    /\ UNCHANGED <<mintAddress, mints>>

\* onChange of the file input
SelectFile ==
    /\ \E f \in PageFiles \cup {NoFile} : f # file /\ file' = f
    /\ UNCHANGED <<env, clock, store, reqs, wallet, busy, status, mintAddress, metadataUrl,
                   metadataGatewayUrl, imageGatewayUrl, workflows, mints, clicks, lastClick>>

\* the wallet adapter connects or disconnects
ToggleWallet ==
    /\ wallet' = ~wallet
    /\ UNCHANGED <<env, clock, store, reqs, file, busy, status, mintAddress, metadataUrl,
                   metadataGatewayUrl, imageGatewayUrl, workflows, mints, clicks, lastClick>>

\* a click on a disabled button dispatches nothing
ClickDisabled ==
    /\ clicks < MaxClicks
    /\ ButtonDisabled
    /\ clicks' = clicks + 1
    /\ lastClick' = "disabled"
    /\ UNCHANGED <<env, clock, store, reqs, file, wallet, busy, status, mintAddress,
                   metadataUrl, metadataGatewayUrl, imageGatewayUrl, workflows, mints>>

\* onClick: mintNft throws before setBusy(true); the catch of the handler runs
ClickRejected ==
    /\ clicks < MaxClicks
    /\ ~ButtonDisabled
    /\ ~Precondition.ok
    /\ clicks' = clicks + 1
    /\ lastClick' = "rejected"
    /\ busy' = FALSE
    /\ status' = FailStatus(Precondition.value)
    /\ UNCHANGED <<env, clock, store, reqs, file, wallet, mintAddress,
                   metadataUrl, metadataGatewayUrl, imageGatewayUrl, workflows, mints>>

\* variant of ClickAccepted: setMintAddress(null) of line 87 is missing
ClickAcceptedKeepsAddress ==
    /\ clicks < MaxClicks
    /\ ~ButtonDisabled
    /\ Precondition.ok
    /\ clicks' = clicks + 1
    /\ lastClick' = "accepted"
    /\ mintAddress' = mintAddress
    /\ IF file = NoFile
       THEN \* line 45: uploadToStorage throws before the fetch
            /\ busy' = FALSE
            /\ status' = FailStatus(SelectImageMsg)
            /\ workflows' = Append(workflows,
                    [Workflow([kind |-> "down", res |-> NoResponse])
                        EXCEPT !.phase = "failed", !.fetches = 0, !.error = SelectImageMsg])
            /\ UNCHANGED reqs
       ELSE /\ busy' = TRUE
            /\ status' = UploadingStatus
            /\ \E t \in Transports :
                /\ workflows' = Append(workflows, Workflow(t))
                /\ IF t.kind = "server"
                   THEN Receive(Len(workflows) + 1,
                                [file |-> file, name |-> Name, description |-> Description])
                   ELSE UNCHANGED reqs
    /\ UNCHANGED <<env, clock, store, file, wallet, metadataUrl, metadataGatewayUrl,
                   imageGatewayUrl, mints>>

\* onClick: mintNft runs up to the fetch of uploadToStorage
ClickAccepted ==
    /\ clicks < MaxClicks
    /\ ~ButtonDisabled
    /\ Precondition.ok
    /\ clicks' = clicks + 1
    /\ lastClick' = "accepted"
    /\ mintAddress' = Undefined
    /\ IF file = NoFile
       THEN \* line 45: uploadToStorage throws before the fetch
            /\ busy' = FALSE
            /\ status' = FailStatus(SelectImageMsg)
            /\ workflows' = Append(workflows,
                    [Workflow([kind |-> "down", res |-> NoResponse])
                        EXCEPT !.phase = "failed", !.fetches = 0, !.error = SelectImageMsg])
            /\ UNCHANGED reqs
       ELSE /\ busy' = TRUE
            /\ status' = UploadingStatus
            /\ \E t \in Transports :
                /\ workflows' = Append(workflows, Workflow(t))
                /\ IF t.kind = "server"
                   THEN Receive(Len(workflows) + 1,
                                [file |-> file, name |-> Name, description |-> Description])
                   ELSE UNCHANGED reqs
    /\ UNCHANGED <<env, clock, store, file, wallet, metadataUrl, metadataGatewayUrl,
                   imageGatewayUrl, mints>>

\* the fetch of workflow w resolves or rejects: rest of uploadToStorage, then mintNft up to
\* the call of create
FetchReturns(w) ==
    LET wf == workflows[w]
        mine == {r \in 1..Len(reqs) : reqs[r].origin = w /\ reqs[r].pc = "done"}
    IN  /\ wf.phase = "uploading"
        /\ wf.transport = "server" => mine # {}
        /\ LET res == IF wf.transport = "server"
                      THEN reqs[CHOOSE r \in mine : TRUE].response ELSE wf.res
               out == IF wf.transport = "down" THEN Thrown(FetchFailedMsg)
                      ELSE UploadResult(res)
           IN  IF out.ok
               THEN /\ metadataUrl' = out.value
                    /\ metadataGatewayUrl' = JsonGet(res.text, "metadataGatewayUrl")
                    /\ imageGatewayUrl' = JsonGet(res.text, "imageGatewayUrl")
                    /\ status' = MintingStatus
                    /\ mints' = Append(mints, [wf |-> w, uri |-> out.value, name |-> Name])
                    /\ workflows' = [workflows EXCEPT ![w].phase = "minting",
                                                      ![w].res = res, ![w].uri = out.value]
                    /\ UNCHANGED <<busy, mintAddress>>
               ELSE /\ Failed(w, out.value, res)
                    /\ UNCHANGED <<metadataUrl, metadataGatewayUrl, imageGatewayUrl>>
        /\ reqs' = [r \in 1..Len(reqs) |-> IF r \in mine THEN Closed(reqs[r]) ELSE reqs[r]]
        /\ UNCHANGED <<env, clock, store, file, wallet, clicks, lastClick>>

\* create of workflow w resolves or rejects: rest of mintNft
MintReturns(w) ==
    /\ workflows[w].phase = "minting"
    /\ \/ /\ mintAddress' = <<"Mint", ToString(w)>>
          /\ status' = MintedStatus
          /\ busy' = FALSE
          /\ workflows' = [workflows EXCEPT ![w].phase = "done",
                                            ![w].address = <<"Mint", ToString(w)>>]
          /\ UNCHANGED mints
       \/ \E msg \in MintErrors : Failed(w, msg, workflows[w].res)
    /\ UNCHANGED <<env, clock, store, reqs, file, wallet, metadataUrl, metadataGatewayUrl,
                   imageGatewayUrl, clicks, lastClick>>

----------------------------------------------------------------------------
(* Specifications *)

\* Date.now() advances
Tick ==
    /\ clock < MaxClock
    /\ clock' = clock + 1
    /\ UNCHANGED <<env, store, reqs>>
    /\ UNCHANGED pageVars

\* a request of another client than the page
ExternalRequest ==
    /\ Cardinality({r \in 1..Len(reqs) : reqs[r].origin = 0}) < MaxRequests
    /\ \E form \in Forms : Receive(0, form)
    /\ UNCHANGED <<env, clock, store>>
    /\ UNCHANGED pageVars

PutImageStep == \E r \in 1..Len(reqs) : PutImage(r) /\ UNCHANGED <<env, clock>> /\ UNCHANGED pageVars
HeadImageStep == \E r \in 1..Len(reqs) : HeadImage(r) /\ UNCHANGED <<env, clock>> /\ UNCHANGED pageVars
PutMetadataStep == \E r \in 1..Len(reqs) : PutMetadata(r) /\ UNCHANGED <<env, clock>> /\ UNCHANGED pageVars
HeadMetadataStep == \E r \in 1..Len(reqs) : HeadMetadata(r) /\ UNCHANGED <<env, clock>> /\ UNCHANGED pageVars

FetchReturnsStep == \E w \in 1..Len(workflows) : FetchReturns(w)
MintReturnsStep == \E w \in 1..Len(workflows) : MintReturns(w)

\* process.env as the process finds it: complete, with one key unset or empty, or with
\* two keys unset
Envs == {BaseEnv}
        \cup {[BaseEnv EXCEPT ![k] = Undefined] : k \in DOMAIN BaseEnv}
        \cup {[BaseEnv EXCEPT !["FILEBASE_BUCKET"] = EmptyString]}
        \cup {[BaseEnv EXCEPT !["FILEBASE_SECRET_KEY"] = Undefined,
                              !["FILEBASE_GATEWAY"] = Undefined]}

InitServer ==
    /\ env \in Envs
    /\ clock = 1
    /\ store = <<>>
    /\ reqs = <<>>

InitPage ==
    /\ file = NoFile
    /\ wallet = FALSE
    /\ busy = FALSE
    /\ status = EmptyString
    /\ mintAddress = Undefined
    /\ metadataUrl = Undefined
    /\ metadataGatewayUrl = Undefined
    /\ imageGatewayUrl = Undefined
    /\ workflows = <<>>
    /\ mints = <<>>
    /\ clicks = 0
    /\ lastClick = "none"

Init == InitServer /\ InitPage

\* two image uploads of other clients, handled at overlapping times
PairForms == {[file |-> f, name |-> Undefined, description |-> Undefined] :
                f \in {g \in Files : IsImageType(g.type)}}

PairRequest ==
    /\ Len(reqs) < 2
    /\ \E form \in PairForms : Receive(0, form)
    /\ UNCHANGED <<env, clock, store>>
    /\ UNCHANGED pageVars

InitPair == Init /\ env = BaseEnv

NextPair ==
    \/ PairRequest
    \/ PutImageStep
    \/ HeadImageStep
    \/ PutMetadataStep
    \/ HeadMetadataStep
    \/ Tick

PairSpec == InitPair /\ [][NextPair]_vars

\* the endpoint serving requests of arbitrary clients
NextServer ==
    \/ ExternalRequest
    \/ PutImageStep
    \/ HeadImageStep
    \/ PutMetadataStep
    \/ HeadMetadataStep
    \/ Tick

ServerSpec == Init /\ [][NextServer]_vars

\* the page, with the endpoint serving its uploads
NextPage ==
    \/ SelectFile
    \/ ToggleWallet
    \/ ClickDisabled
    \/ ClickRejected
    \/ ClickAccepted
    \/ FetchReturnsStep
    \/ MintReturnsStep
    \/ PutImageStep
    \/ HeadImageStep
    \/ PutMetadataStep
    \/ HeadMetadataStep
    \/ Tick

PageSpec == Init /\ [][NextPage]_vars

----------------------------------------------------------------------------
(* Properties of the upload endpoint, checked under ServerSpec *)

Answered == {r \in 1..Len(reqs) : reqs[r].pc = "done"}

\* every configuration value the endpoint reads is set and not empty
ConfigComplete == \A k \in DOMAIN env : env[k] # Undefined /\ env[k] # EmptyString

HasError(resp) == JsonGet(resp.text, "error") # Undefined

\* the calls of request q to the store with the given operation in the given namespace
CallsOf(q, op, prefix) ==
    {i \in 1..Len(q.calls) : q.calls[i].op = op /\ q.calls[i].key.prefix = prefix}

NoFileField(q) == q.form.file = NoFile

NonImageFile(q) ==
    /\ q.form.file.kind = "file"
    /\ ~(Len(q.form.file.type) >= 1 /\ q.form.file.type[1] = "image/")

ImageCidUnresolved(q) ==
    /\ \E i \in CallsOf(q, "PUT", "images") :
            ~q.calls[i].threw /\ q.calls[i].cid = Undefined
    /\ \E i \in CallsOf(q, "HEAD", "images") :
            ~q.calls[i].threw /\ q.calls[i].cid = Undefined

MentionsCid(msg) == msg \in {ImgCidMissingMsg, MetaCidMissingMsg}

\* C3: when the image PUT succeeded and neither its response headers nor the HEAD
\* fallback gave an identifier, the answer is 500 with an error about the missing CID
\* and no metadata PUT is issued for the request.
C3_NoCidShortCircuits ==
    \A r \in 1..Len(reqs) :
        ImageCidUnresolved(reqs[r]) =>
            /\ reqs[r].pc = "done"
            /\ reqs[r].response.status = 500
            /\ MentionsCid(JsonGet(reqs[r].response.text, "error"))
            /\ CallsOf(reqs[r], "PUT", "metadata") = {}

C3_Witness ==
    \E r \in Answered :
        /\ ImageCidUnresolved(reqs[r])
        /\ store # <<>>

\* C4: a metadata PUT is issued only after the image PUT of the same request has
\* completed and a non-empty image identifier has been read from an earlier answer of
\* the store; the "image" member of the document is "ipfs://" followed by exactly
\* that identifier.
C4_MetadataAfterImage ==
    \A r \in 1..Len(reqs) :
        \A i \in CallsOf(reqs[r], "PUT", "metadata") :
            LET q == reqs[r]
            IN  /\ \E j \in CallsOf(q, "PUT", "images") : j < i /\ ~q.calls[j].threw
                /\ q.imgCid # Undefined /\ q.imgCid # EmptyString
                /\ \E j \in 1..(i - 1) :
                        /\ q.calls[j].key = q.imgKey
                        /\ ~q.calls[j].threw
                        /\ q.calls[j].cid = q.imgCid
                /\ JsonGet(q.calls[i].body, "image") = <<"ipfs://">> \o q.imgCid

C4_Witness ==
    \E r \in 1..Len(reqs) :
        /\ CallsOf(reqs[r], "PUT", "metadata") # {}
        /\ CallsOf(reqs[r], "HEAD", "images") # {}

\* C5: in every 200 answer, imageIpfs equals the "image" member of the metadata
\* document the request wrote under its metadata key.
C5_ImageFieldMatchesResponse ==
    \A r \in Answered :
        reqs[r].response.status = 200 =>
            /\ CallsOf(reqs[r], "PUT", "metadata") # {}
            /\ \A i \in CallsOf(reqs[r], "PUT", "metadata") :
                    /\ reqs[r].calls[i].key = reqs[r].metaKey
                    /\ JsonGet(reqs[r].calls[i].body, "image")
                            = JsonGet(reqs[r].response.text, "imageIpfs")
                    /\ JsonGet(reqs[r].calls[i].body, "image") # Undefined

C5_Witness ==
    \E r \in Answered :
        /\ reqs[r].response.status = 200
        /\ reqs[r].metaKey \in DOMAIN store
        /\ JsonGet(store[reqs[r].metaKey].body, "image")
                = JsonGet(reqs[r].response.text, "imageIpfs")

----------------------------------------------------------------------------
(* Properties of the page controller, checked under PageSpec *)

\* the answer a workflow received is a successful Upload Result
GoodUpload(wf) ==
    /\ wf.transport # "down"
    /\ wf.res.status >= 200 /\ wf.res.status <= 299
    /\ wf.res.text.kind = "json"
    /\ \E i \in 1..Len(wf.res.text.members) :
            /\ wf.res.text.members[i][1] = "metadataUrl"
            /\ wf.res.text.members[i][2] # EmptyString
            /\ wf.res.text.members[i][2] # Undefined

MintsOf(w) == {m \in 1..Len(mints) : mints[m].wf = w}
UploadsOf(w) == {r \in 1..Len(reqs) : reqs[r].origin = w}

\* C6: at most one workflow is in flight, and a click while one is in flight starts
\* nothing: no workflow, no upload request, no mint call.
C6_SingleWorkflowInFlight ==
    [][ /\ Cardinality(InFlight') <= 1
        /\ (InFlight # {} /\ clicks' # clicks) =>
                /\ workflows' = workflows
                /\ reqs' = reqs
                /\ mints' = mints
                /\ busy' = TRUE ]_vars

C6_Witness ==
    /\ lastClick = "disabled"
    /\ wallet
    /\ busy
    /\ \E w \in InFlight : workflows[w].phase = "minting"

\* C7: create is called only for a workflow whose upload was answered with an ok
\* status, a JSON body and a non-empty metadataUrl, and with exactly that metadataUrl
\* as uri; a workflow whose upload failed or was answered otherwise never calls create.
C7_MintOnlyAfterGoodUpload ==
    /\ \A m \in 1..Len(mints) :
            /\ mints[m].wf \in 1..Len(workflows)
            /\ workflows[mints[m].wf].phase # "uploading"
            /\ GoodUpload(workflows[mints[m].wf])
            /\ mints[m].uri = JsonGet(workflows[mints[m].wf].res.text, "metadataUrl")
    /\ \A w \in 1..Len(workflows) :
            (workflows[w].phase # "uploading" /\ ~GoodUpload(workflows[w])) => MintsOf(w) = {}

C7_Witness ==
    \E m \in 1..Len(mints) :
        /\ workflows[mints[m].wf].transport = "server"
        /\ mints[m].uri[1] = "ipfs://"
        /\ \E w \in 1..Len(workflows) :
                workflows[w].phase = "failed" /\ workflows[w].transport = "proxy"

PreconditionMessages == {ConnectWalletMsg, MetaplexMsg, SelectImageMsg}

Links == <<metadataUrl, metadataGatewayUrl, imageGatewayUrl>>

\* C8 as stated: a click of the idle controller without a selected file or without a
\* connected wallet shows the precondition message and changes nothing else.
C8_PreconditionAlwaysReported ==
    [][ (clicks' # clicks /\ ~busy /\ (file = NoFile \/ ~wallet)) =>
            /\ \E msg \in PreconditionMessages : status' = <<FailMark>> \o msg
            /\ busy' = FALSE
            /\ reqs' = reqs /\ mints' = mints /\ workflows' = workflows
            /\ mintAddress' = mintAddress
            /\ Links' = Links ]_vars

\* C8 amended: a click of the idle controller without a selected file (wallet
\* connected) shows the precondition message; a click without a connected wallet hits
\* the disabled button and shows nothing. In both cases busy stays false, no upload
\* request and no mint call is made, and the mint address and the links are unchanged.
C8_PreconditionKeepsIdle ==
    [][ (clicks' # clicks /\ ~busy /\ (file = NoFile \/ ~wallet)) =>
            /\ wallet => status' = <<FailMark>> \o SelectImageMsg
            /\ ~wallet => status' = status
            /\ busy' = FALSE
            /\ reqs' = reqs /\ mints' = mints /\ workflows' = workflows
            /\ mintAddress' = mintAddress
            /\ Links' = Links ]_vars

C8_Witness ==
    /\ lastClick = "rejected"
    /\ status = <<FailMark>> \o SelectImageMsg
    /\ mintAddress # Undefined
    /\ metadataUrl # Undefined
    /\ ~busy

\* C9: when the upload request, the reading of its answer or the mint call of an
\* accepted workflow fails, then with the return of the failing call busy is false and
\* the status is the failure mark followed by the failure message.
C9_FailureEndsBusy ==
    [][ \A w \in 1..Len(workflows) :
            (workflows[w].phase \in {"uploading", "minting"}
                /\ workflows'[w].phase \notin {"uploading", "minting", "done"}) =>
                    /\ workflows'[w].phase = "failed"
                    /\ busy' = FALSE
                    /\ Head(status') = FailMark
                    /\ workflows'[w].error # EmptyString => Tail(status') = workflows'[w].error
                    /\ InFlight' = {} ]_vars

C9_Witness ==
    \E w \in 1..Len(workflows) :
        /\ workflows[w].phase = "failed"
        /\ workflows[w].uri # Undefined
        /\ MintsOf(w) # {}
        /\ ~busy
        /\ status = <<FailMark, "insufficient funds">>

\* C10: every accepted click causes at most one fetch of the upload endpoint and at
\* most one call of create, whatever fails; nothing is sent without an accepted click.
C10_NoAutomaticRetry ==
    /\ Len(workflows) <= clicks
    /\ \A w \in 1..Len(workflows) :
            /\ workflows[w].fetches <= 1
            /\ Cardinality(UploadsOf(w)) <= workflows[w].fetches
            /\ Cardinality(MintsOf(w)) <= 1
    /\ \A r \in 1..Len(reqs) : reqs[r].origin \in 1..Len(workflows)
    /\ \A m \in 1..Len(mints) : mints[m].wf \in 1..Len(workflows)

C10_Witness ==
    /\ InFlight = {}
    /\ Len(workflows) = 2
    /\ workflows[1].phase = "failed" /\ workflows[1].fetches = 1
    /\ workflows[1].transport = "server"
    /\ workflows[2].phase = "failed" /\ MintsOf(2) # {}

----------------------------------------------------------------------------
(* Further properties of the upload endpoint, checked under ServerSpec *)

\* something failed inside the handling of q: configuration, form parsing, or a call
\* to the store
InternalFailure(q) ==
    \/ ~ConfigComplete
    \/ q.form.file.kind = "malformed"
    \/ \E i \in 1..Len(q.calls) : q.calls[i].threw

\* C11: every request that has ended has a JSON response of status 200, 400 or 500,
\* with an error field unless the status is 200; a missing configuration value, a
\* form that cannot be parsed and a throwing PUT or HEAD end in a 500 response; a
\* request that has not ended is waiting for the store.
C11_AlwaysJsonResponse ==
    \A r \in 1..Len(reqs) :
        /\ reqs[r].pc \in {"putImg", "headImg", "putMeta", "headMeta", "done", "closed"}
        /\ reqs[r].pc = "done" =>
            /\ reqs[r].response.status \in {200, 400, 500}
            /\ reqs[r].response.text.kind = "json"
            /\ reqs[r].response.status # 200 =>
                    /\ HasError(reqs[r].response)
                    /\ JsonGet(reqs[r].response.text, "error") # EmptyString
            /\ InternalFailure(reqs[r]) =>
                    /\ reqs[r].response.status = 500
                    /\ HasError(reqs[r].response)

C11_Witness ==
    \E r \in Answered :
        /\ ConfigComplete
        /\ \E i \in CallsOf(reqs[r], "HEAD", "metadata") : reqs[r].calls[i].threw
        /\ reqs[r].response.status = 500
        /\ JsonGet(reqs[r].response.text, "error") = UploadFailedMsg

\* the identifier the store gave request q for key: the one carried by the last answer
\* to a call of q on that key
ResolvedFor(q, key) ==
    LET on == {i \in 1..Len(q.calls) : q.calls[i].key = key /\ ~q.calls[i].threw}
    IN  IF on = {} THEN Undefined
        ELSE q.calls[CHOOSE i \in on : \A j \in on : j <= i].cid

\* uri is "ipfs://" followed by the non-empty identifier cid
IsIpfsUriOf(uri, cid) ==
    /\ uri # Undefined
    /\ Len(uri) > 1
    /\ Head(uri) = "ipfs://"
    /\ Tail(uri) = cid
    /\ cid # Undefined /\ cid # EmptyString

\* C12: in every 200 response imageIpfs and metadataUrl are "ipfs://" followed by a
\* non-empty identifier, namely the one resolved for the image key and the one
\* resolved for the metadata key of the request.
C12_WellFormedUris ==
    \A r \in Answered :
        reqs[r].response.status = 200 =>
            /\ IsIpfsUriOf(JsonGet(reqs[r].response.text, "imageIpfs"),
                           ResolvedFor(reqs[r], reqs[r].imgKey))
            /\ IsIpfsUriOf(JsonGet(reqs[r].response.text, "metadataUrl"),
                           ResolvedFor(reqs[r], reqs[r].metaKey))
            /\ reqs[r].imgKey.prefix = "images"
            /\ reqs[r].metaKey.prefix = "metadata"

C12_Witness ==
    \E r \in Answered :
        /\ reqs[r].response.status = 200
        /\ CallsOf(reqs[r], "HEAD", "images") = {}
        /\ CallsOf(reqs[r], "HEAD", "metadata") # {}
        /\ JsonGet(reqs[r].response.text, "metadataUrl")
                # JsonGet(reqs[r].response.text, "imageIpfs")

\* the image identifier of q was resolved and q ended without a metadata identifier
MetadataStepFailed(q) ==
    /\ q.pc = "done"
    /\ q.imgCid # Undefined
    /\ q.metaCid = Undefined

\* the store operations of q: at most one PUT per key of q, HEAD only of a key q has
\* PUT before, at most once
OnlyTwoPutsAndTheirHeads(q) ==
    /\ \A i \in 1..Len(q.calls) :
            /\ q.calls[i].op \in {"PUT", "HEAD"}
            /\ q.calls[i].key \in {q.imgKey, q.metaKey}
            /\ q.calls[i].key # NoKey
    /\ Cardinality(CallsOf(q, "PUT", "images")) <= 1
    /\ Cardinality(CallsOf(q, "PUT", "metadata")) <= 1
    /\ Cardinality(CallsOf(q, "HEAD", "images")) <= 1
    /\ Cardinality(CallsOf(q, "HEAD", "metadata")) <= 1
    /\ \A i \in CallsOf(q, "HEAD", "images") \cup CallsOf(q, "HEAD", "metadata") :
            \E j \in 1..(i - 1) :
                q.calls[j].op = "PUT" /\ q.calls[j].key = q.calls[i].key /\ ~q.calls[j].threw

\* no other request has written to the image key of request r
ImageKeyUnshared(r) ==
    \A o \in 1..Len(reqs) :
        o # r => \A i \in CallsOf(reqs[o], "PUT", "images") :
                    reqs[o].calls[i].key # reqs[r].imgKey

\* C13: when the metadata PUT or the metadata identifier resolution fails after the
\* image identifier was resolved, the response is 500 with an error and without
\* imageIpfs and metadataUrl, the image object is still in the store, and the request
\* has made no store operation besides at most two PUTs and their HEAD lookups.
C13_NoPartialSuccessNoRollback ==
    \A r \in 1..Len(reqs) :
        /\ OnlyTwoPutsAndTheirHeads(reqs[r])
        /\ MetadataStepFailed(reqs[r]) =>
            /\ reqs[r].response.status = 500
            /\ HasError(reqs[r].response)
            /\ JsonGet(reqs[r].response.text, "imageIpfs") = Undefined
            /\ JsonGet(reqs[r].response.text, "metadataUrl") = Undefined
            /\ JsonGet(reqs[r].response.text, "imageGatewayUrl") = Undefined
            /\ JsonGet(reqs[r].response.text, "metadataGatewayUrl") = Undefined
            /\ reqs[r].imgKey \in DOMAIN store
            /\ ImageKeyUnshared(r) =>
                    store[reqs[r].imgKey].body = ImageBytes(reqs[r].form.file)

C13_Witness ==
    \E r \in Answered :
        /\ MetadataStepFailed(reqs[r])
        /\ JsonGet(reqs[r].response.text, "error") = MetaCidMissingMsg
        /\ reqs[r].imgKey \in DOMAIN store
        /\ reqs[r].metaKey \in DOMAIN store

\* the required keys that are unset or empty, by their position in the order POST reads
\* them
MissingKeys == {i \in 1..Len(EnvKeys) : env[EnvKeys[i]] \in {Undefined, EmptyString}}

----------------------------------------------------------------------------
(* Storage keys of two requests, checked under PairSpec *)

\* the PUT calls of request q, image and metadata
PutsOf(q) == CallsOf(q, "PUT", "images") \cup CallsOf(q, "PUT", "metadata")

\* the file name a key of q in the given namespace is made from
KeyName(q, prefix) == IF prefix = "images" THEN q.form.file.name ELSE <<"metadata.json">>

\* what Date.now() and Math.random() returned when q made its key in the namespace
KeyDraw(q, prefix) == IF prefix = "images" THEN q.draws[1] ELSE q.draws[2]

\* C15 as stated: no PUT of one request targets a key that a PUT of another request
\* targets.
C15_KeysAlwaysUnique ==
    \A r1, r2 \in 1..Len(reqs) :
        r1 # r2 =>
            \A i \in PutsOf(reqs[r1]), j \in PutsOf(reqs[r2]) :
                reqs[r1].calls[i].key # reqs[r2].calls[j].key

\* C15 amended: PUTs of two requests target the same key exactly when they are in the
\* same namespace and the two requests got the same Date.now() value and the same
\* Math.random() value for it and their file names are equal after whitespace
\* normalisation; in every other case the keys differ.
C15_KeysUniqueUpToDraws ==
    \A r1, r2 \in 1..Len(reqs) :
        r1 # r2 =>
            \A i \in PutsOf(reqs[r1]), j \in PutsOf(reqs[r2]) :
                LET k1 == reqs[r1].calls[i].key
                    k2 == reqs[r2].calls[j].key
                IN  (k1 = k2) <=>
                        /\ k1.prefix = k2.prefix
                        /\ KeyDraw(reqs[r1], k1.prefix) = KeyDraw(reqs[r2], k2.prefix)
                        /\ ReplaceSpaces(KeyName(reqs[r1], k1.prefix))
                                = ReplaceSpaces(KeyName(reqs[r2], k2.prefix))

C15_Witness ==
    /\ Len(reqs) = 2
    /\ reqs[1].response.status = 200 /\ reqs[2].response.status = 200
    /\ reqs[1].form = reqs[2].form
    /\ reqs[1].draws[1].now = reqs[2].draws[1].now
    /\ reqs[1].draws[1].rnd # reqs[2].draws[1].rnd
    /\ reqs[1].imgKey # reqs[2].imgKey
    /\ reqs[1].metaKey # reqs[2].metaKey
    /\ Cardinality(DOMAIN store) = 4

----------------------------------------------------------------------------
(* Identifier resolution and page display *)

\* the stage in which q waits for the HEAD of a key of the given namespace
HeadStage(prefix) == IF prefix = "images" THEN "headImg" ELSE "headMeta"

\* the identifier q holds for the given namespace
HeldCid(q, prefix) == IF prefix = "images" THEN q.imgCid ELSE q.metaCid

\* C16: for the image and for the metadata object alike, an identifier in the PUT
\* response is used and then no HEAD is issued for that key; a HEAD is issued exactly
\* when the PUT response carried none, directly after that PUT and for the same key.
C16_TwoTierResolution ==
    \A r \in 1..Len(reqs) :
        LET q == reqs[r]
        IN  /\ \A i \in PutsOf(q) :
                LET c == q.calls[i]
                IN  /\ (~c.threw /\ c.cid # Undefined) =>
                            /\ \A j \in 1..Len(q.calls) :
                                    ~(q.calls[j].op = "HEAD" /\ q.calls[j].key = c.key)
                            /\ q.pc # HeadStage(c.key.prefix)
                            /\ HeldCid(q, c.key.prefix) = c.cid
                    /\ (~c.threw /\ c.cid = Undefined) =>
                            IF i = Len(q.calls)
                            THEN q.pc = HeadStage(c.key.prefix)
                            ELSE q.calls[i + 1].op = "HEAD" /\ q.calls[i + 1].key = c.key
                    /\ c.threw => i = Len(q.calls) /\ q.pc = "done"
            /\ \A j \in 1..Len(q.calls) :
                    q.calls[j].op = "HEAD" =>
                        /\ j > 1
                        /\ q.calls[j - 1].op = "PUT"
                        /\ q.calls[j - 1].key = q.calls[j].key
                        /\ ~q.calls[j - 1].threw
                        /\ q.calls[j - 1].cid = Undefined
                        /\ ~q.calls[j].threw => HeldCid(q, q.calls[j].key.prefix) = q.calls[j].cid

C16_Witness ==
    \E r \in Answered :
        /\ reqs[r].response.status = 200
        /\ CallsOf(reqs[r], "HEAD", "images") # {}
        /\ CallsOf(reqs[r], "HEAD", "metadata") = {}
        /\ Len(reqs[r].calls) = 3

\* C17: busy is true exactly when an accepted workflow has its upload request or its
\* mint call outstanding.
C17_BusyMirrorsWorkflow ==
    busy <=> (\E w \in 1..Len(workflows) : workflows[w].phase \in {"uploading", "minting"})

C17_Witness ==
    /\ Len(workflows) = 2
    /\ workflows[1].phase = "failed"
    /\ workflows[2].phase = "minting"
    /\ busy
    /\ lastClick = "accepted"

\* C18: a displayed mint address is the address the mint call of the most recent
\* accepted workflow returned, and the displayed metadataUrl is the uri of that call;
\* while the most recent accepted workflow is in flight or has failed no address is
\* displayed.
C18_AddressOfLatestWorkflow ==
    /\ mintAddress # Undefined =>
            /\ workflows # <<>>
            /\ workflows[Len(workflows)].phase = "done"
            /\ workflows[Len(workflows)].address = mintAddress
            /\ \E m \in MintsOf(Len(workflows)) : mints[m].uri = metadataUrl
            /\ metadataUrl # Undefined
    /\ (workflows # <<>> /\ workflows[Len(workflows)].phase # "done") =>
            mintAddress = Undefined

C18_Witness ==
    /\ Len(workflows) = 2
    /\ workflows[1].phase = "done"
    /\ workflows[1].address # Undefined
    /\ workflows[2].phase = "failed"
    /\ workflows[2].uri # Undefined
    /\ mintAddress = Undefined

====
